---- MODULE Spec2Model ----
(***************************************************************************)
(* MasterGuard (src/master-guard.service.ts): a route guard that runs the  *)
(* guards listed in the route data one after the other and combines their  *)
(* answers under the relation AND or OR.                                   *)
(*                                                                         *)
(* One MasterGuard instance serves every call of canActivate and           *)
(* canActivateChild.  A call runs synchronously up to the first guard's    *)
(* invocation; every later step is a promise callback.  The model has one  *)
(* action per entry point and per callback, and the instance fields        *)
(* (route, state, executor, relation) are shared by all calls, as they are *)
(* in the class.                                                           *)
(***************************************************************************)
EXTENDS Integers, Sequences, FiniteSets

\* ------------------------------------------------------------------ bounds
\* Longest guards list a route declares.
MaxGuards == 3

\* Calls of the entry points that may be in flight on the one instance.
Inv == {1, 2}

\* RouterStateSnapshot arguments.
States == {"s1", "s2"}

\* ------------------------------------------------------- values of the code
\* The guard classes of the repository, in the order of the doc comment
\* (guards: [Guard1, Guard2, Guard3]).
GuardTokens == <<"Guard1", "Guard2", "Guard3">>

\* The list [Guard1, Guard2, Guard3, Guard1, ...] cut to n entries.
GuardList(n) == [k \in 1..n |-> GuardTokens[((k - 1) % Len(GuardTokens)) + 1]]

\* What the injector provides.
Provided == {GuardTokens[k] : k \in DOMAIN GuardTokens}

\* A string is the sequence of its characters.
OR == <<"O", "R">>
AND == <<"A", "N", "D">>

Lower == <<"a", "d", "g", "i", "n", "o", "r", "s", "t", "x">>
Upper == <<"A", "D", "G", "I", "N", "O", "R", "S", "T", "X">>

\* String.prototype.toUpperCase, character by character.
UpperChar(c) ==
    IF \E k \in DOMAIN Lower : Lower[k] = c
    THEN Upper[CHOOSE k \in DOMAIN Lower : Lower[k] = c]
    ELSE c

ToUpperCase(s) == [k \in DOMAIN s |-> UpperChar(s[k])]

\* A value of route.data.guardsRelation: undefined, or a string.
Undefined == [type |-> "undefined", chars |-> <<>>]
Str(s) == [type |-> "string", chars |-> s]

\* route.data.guards: undefined, or an array of tokens.
NoGuards == [defined |-> FALSE, list |-> <<>>]
Guards(l) == [defined |-> TRUE, list |-> l]

\* A canActivate / canActivateChild array of a route configuration:
\* undefined, or a list of guard classes.
NoList == [defined |-> FALSE, list |-> <<>>]
List(l) == [defined |-> TRUE, list |-> l]

Data(g, r) == [guards |-> g, guardsRelation |-> r]

\* An ActivatedRouteSnapshot is the sequence of its nodes from the node itself
\* up to the last one that has a parent reference; route.parent is Tail(route)
\* and the empty sequence is null.
Node(d, ca, cac) ==
    [data |-> d, routeConfig |-> [isNull |-> FALSE, canActivate |-> ca, canActivateChild |-> cac]]

\* The router's root snapshot: no data, routeConfig null, no parent.
RootNode ==
    [data |-> Data(NoGuards, Undefined),
     routeConfig |-> [isNull |-> TRUE, canActivate |-> NoList, canActivateChild |-> NoList]]

Null == <<>>

MasterGuardClass == "MasterGuard"
OtherGuardClass == "OtherGuard"

\* ------------------------------------------------------------------ routes
\* Values a route declares as guardsRelation.
RelationValues ==
    {Undefined, Str(OR), Str(<<"o", "r">>), Str(<<"O", "r">>), Str(<<"o", "R">>),
     Str(AND), Str(<<"a", "n", "d">>), Str(<<"x", "o", "r">>), Str(<<>>)}

DeclaredLists == {GuardList(n) : n \in 0..MaxGuards}

\* "Single route" of the doc comment: the route carries canActivate: [MasterGuard]
\* and its own data.
SingleRoute(l, r) ==
    <<Node(Data(Guards(l), r), List(<<MasterGuardClass>>), NoList), RootNode>>

\* "Child Routes" of the doc comment: the parent carries canActivateChild:
\* [MasterGuard] and the guards, the child declares data d of its own.
ChildRoute(d, l, r) ==
    <<Node(d, NoList, NoList),
      Node(Data(Guards(l), r), NoList, List(<<MasterGuardClass>>)),
      RootNode>>

\* A route that carries canActivate: [MasterGuard] and data without guards.
BareRoute(r) ==
    <<Node(Data(NoGuards, r), List(<<OtherGuardClass, MasterGuardClass>>), NoList), RootNode>>

SingleRoutes ==
    {SingleRoute(l, r) : l \in DeclaredLists, r \in RelationValues}
    \cup {BareRoute(r) : r \in {Undefined, Str(OR)}}

ChildRoutes ==
    {ChildRoute(Data(NoGuards, rc), l, r) :
        rc \in {Undefined, Str(OR), Str(AND)}, l \in DeclaredLists, r \in RelationValues}

OverrideRoutes ==
    {ChildRoute(Data(Guards(lc), rc), l, r) :
        lc \in DeclaredLists, rc \in RelationValues,
        l \in DeclaredLists, r \in {Undefined, Str(OR), Str(AND)}}

\* A node whose data declares neither guards nor guardsRelation.
PlainNode(ca, cac) == Node(Data(NoGuards, Undefined), ca, cac)

\* Nodes without guards between a route and the ancestor that declares them:
\* without guard lists, with another guard, with MasterGuard.
UnattachedNodes ==
    {PlainNode(NoList, NoList), PlainNode(List(<<OtherGuardClass>>), NoList)}

AttachedNodes ==
    {PlainNode(List(<<MasterGuardClass>>), NoList),
     PlainNode(NoList, List(<<OtherGuardClass, MasterGuardClass>>))}

\* A route two levels below the node that carries canActivateChild:
\* [MasterGuard] and the guards.
DeepRoute(t, p, l, r) ==
    <<t, p, Node(Data(Guards(l), r), NoList, List(<<MasterGuardClass>>)), RootNode>>

DeepRoutes ==
    {DeepRoute(t, p, l, r) :
        t \in UnattachedNodes \cup AttachedNodes, p \in UnattachedNodes \cup AttachedNodes,
        l \in DeclaredLists, r \in {Undefined, Str(OR)}}

\* Routes on which no node declares guards and none carries MasterGuard: up to
\* the router's root, and up to a node without parent reference.
UnguardedRoutes ==
    {<<t, RootNode>> : t \in UnattachedNodes}
    \cup {<<t, p, RootNode>> : t \in UnattachedNodes, p \in UnattachedNodes}
    \cup {<<t>> : t \in UnattachedNodes}

\* The routes of the calls that run one at a time.
Routes == SingleRoutes \cup ChildRoutes \cup OverrideRoutes \cup DeepRoutes \cup UnguardedRoutes

\* The routes of the calls that overlap: every list length under a relation
\* that resolves to AND and under one that resolves to OR, a child that takes
\* its guards from its parent, and a child that overrides them.
ConcurrentRoutes ==
    {SingleRoute(l, r) : l \in DeclaredLists, r \in {Undefined, Str(<<"o", "r">>)}}
    \cup {BareRoute(Undefined),
          ChildRoute(Data(NoGuards, Undefined), GuardList(MaxGuards), Str(OR)),
          ChildRoute(Data(Guards(GuardList(1)), Str(OR)), GuardList(MaxGuards), Undefined)}

\* ------------------------------------------------------ the instance, calls
VARIABLES
    route,      \* this.route
    state,      \* this.state
    executor,   \* this.executor
    relation,   \* this.relation
    call,       \* per call: the entry point and its arguments, or NoCall
    guards,     \* per call: the guards parameter of executeGuards
    guardIndex, \* per call: the guardIndex parameter of the executeGuards in progress
    lookups,    \* per call: the tokens passed to injector.get so far, in order
    invoked,    \* per call: the guard methods invoked so far, in order
    results,    \* per call: the results of the guards that have settled, in order
    outcome     \* per call: what the entry point returned

vars ==
    <<route, state, executor, relation, call, guards, guardIndex, lookups, invoked, results,
      outcome>>

\* The relation of a call that resolved none.
NoRelation == <<>>

NoCall == [executor |-> "none", route |-> Null, state |-> "none", relation |-> NoRelation]

\* outcome: "none" before the call, "pending" while the returned promise is
\* unsettled, then "true" / "false" (resolved), "rejected", or "threw" when the
\* entry point threw instead of returning a promise.
Terminal(i) == outcome[i] \in {"true", "false", "rejected", "threw"}

\* ------------------------------------------------------ findDataWithGuards
\* instanceof test of line 76/77 over a canActivate(Child) array:
\* Array.prototype.findIndex, 0-based, -1 when no element matches.
FindIndex(list) ==
    IF \E k \in DOMAIN list : list[k] = MasterGuardClass
    THEN (CHOOSE k \in DOMAIN list : list[k] = MasterGuardClass
                                     /\ \A j \in 1..(k - 1) : list[j] # MasterGuardClass) - 1
    ELSE -1

\* ~x of JavaScript on a small integer.
BitNot(x) == -x - 1

\* Lines 76-77 without the ~: -1 ("not found") is truthy, 0 is falsy.
AttachedWithoutBitNot(arr) == arr.defined /\ FindIndex(arr.list) # 0

\* x && ~x.findIndex(...) as a truth value.
Attached(arr) == arr.defined /\ BitNot(FindIndex(arr.list)) # 0

TypeError == [threw |-> TRUE, data |-> Data(NoGuards, Undefined)]
Return(d) == [threw |-> FALSE, data |-> d]

\* Lines 70-83 without the walk of line 82: the target's own data.
findDataWithGuardsOfTarget(r) == IF r = Null THEN TypeError ELSE Return(Head(r).data)

RECURSIVE findDataWithGuards(_)
findDataWithGuards(r) ==
    IF r = Null THEN TypeError
    ELSE LET node == Head(r) IN
         IF node.data.guards.defined THEN Return(node.data)
         ELSE IF node.routeConfig.isNull THEN TypeError
         ELSE IF Attached(node.routeConfig.canActivateChild)
                 \/ Attached(node.routeConfig.canActivate)
              THEN Return(node.data)
              ELSE findDataWithGuards(Tail(r))

\* -------------------------------------------------------------- middleware
\* Line 57 without the length test.
NoGuardsToRunUndefinedOnly(data) == ~data.guards.defined

\* Line 57: no guards, or an empty list.
NoGuardsToRun(data) == ~data.guards.defined \/ Len(data.guards.list) = 0

\* Lines 61-65 comparing with 'OR' without toUpperCase().
ResolveRelationCaseSensitive(r, data) ==
    IF Head(r).data.guardsRelation = Str(OR) THEN OR ELSE AND

\* Lines 61-65 testing for 'AND' and defaulting to 'OR'.
ResolveRelationDefaultsToOr(r, data) ==
    IF Head(r).data.guardsRelation.type = "string"
    THEN (IF ToUpperCase(Head(r).data.guardsRelation.chars) = AND THEN AND ELSE OR)
    ELSE (IF data.guardsRelation.type = "string"
             /\ ToUpperCase(data.guardsRelation.chars) = AND
          THEN AND ELSE OR)

\* Lines 61-65 assigning this.relation only in the first branch: without a
\* string on the target the field keeps the value of the previous call.
ResolveRelationSticky(r, data) ==
    IF Head(r).data.guardsRelation.type = "string"
    THEN (IF ToUpperCase(Head(r).data.guardsRelation.chars) = OR THEN OR ELSE AND)
    ELSE relation

\* Lines 61-65: the relation the call stores in this.relation.
ResolveRelation(r, data) ==
    IF Head(r).data.guardsRelation.type = "string"
    THEN (IF ToUpperCase(Head(r).data.guardsRelation.chars) = OR THEN OR ELSE AND)
    ELSE (IF data.guardsRelation = Str(<<"s", "t", "r", "i", "n", "g">>)
             /\ ToUpperCase(data.guardsRelation.chars) = OR
          THEN OR ELSE AND)

\* ------------------------------------------------------------ activateGuard
\* guards[guardIndex] of a JavaScript array: undefined outside the array.
GuardAt(gs, k) == IF k + 1 \in DOMAIN gs THEN gs[k + 1] ELSE "undefined"

\* this.injector.get(token) throws for a token it does not provide.
InjectorThrows(token) == token \notin Provided

\* The switch of lines 110-122 over this.executor.
Method(ex) ==
    CASE ex = "canActivate" -> "canActivate"
      [] ex = "canActivateChild" -> "canActivateChild"
      [] OTHER -> "canActivate"

\* The guard method invocation of activateGuard: which guard, which method,
\* with which arguments.
Invocation(token, ex, r, s) ==
    [token |-> token, method |-> Method(ex), route |-> r, state |-> s]

\* ----------------------------------------------------------- executeGuards
\* Line 89: this.relation === 'AND' && !result
RejectsUnderAnd(rel, result) == rel = AND /\ result # "true"

\* Line 92: this.relation === 'OR' && result
ApprovesUnderOr(rel, result) == rel = OR /\ result = "true"

\* Line 95: guardIndex < guards.length - 1
HasNext(gs, k) == k < Len(gs) - 1

\* Line 96 skipping a guard.
NextIndexSkips(k) == k + 2

\* Line 96 passing guardIndex on unchanged.
NextIndexRepeats(k) == k

\* Line 96: the index of the recursive call
NextIndex(k) == k + 1

\* A settled promise as an outcome.
Resolved(result) == IF result = "true" THEN "true" ELSE "false"

Init ==
    /\ route = Null
    /\ state = "undefined"
    /\ executor = "undefined"
    /\ relation = AND
    /\ call = [i \in Inv |-> NoCall]
    /\ guards = [i \in Inv |-> <<>>]
    /\ guardIndex = [i \in Inv |-> 0]
    /\ lookups = [i \in Inv |-> <<>>]
    /\ invoked = [i \in Inv |-> <<>>]
    /\ results = [i \in Inv |-> <<>>]
    /\ outcome = [i \in Inv |-> "none"]

\* middleware(), with the fields already set by the entry point: everything the
\* call does before it returns, the first activateGuard included.
middleware(i, ex, r, s) ==
    LET found == findDataWithGuards(r)
        rel == ResolveRelation(r, found.data)
        gs == found.data.guards.list
        token == GuardAt(gs, 0)
        runs == ~found.threw /\ ~NoGuardsToRun(found.data)
    IN  /\ relation' = IF runs THEN rel ELSE relation
        /\ call' = [call EXCEPT ![i] =
                      [executor |-> ex, route |-> r, state |-> s,
                       relation |-> IF runs THEN rel ELSE NoRelation]]
        /\ guards' = [guards EXCEPT ![i] = IF runs THEN gs ELSE <<>>]
        /\ lookups' = [lookups EXCEPT ![i] = IF runs THEN <<token>> ELSE <<>>]
        /\ invoked' = [invoked EXCEPT ![i] =
                         IF runs /\ ~InjectorThrows(token)
                         THEN <<Invocation(token, ex, r, s)>> ELSE <<>>]
        /\ outcome' = [outcome EXCEPT ![i] =
                         IF found.threw THEN "threw"
                         ELSE IF ~runs THEN "true"
                         ELSE IF InjectorThrows(token) THEN "threw"
                         ELSE "pending"]
        /\ UNCHANGED <<guardIndex, results>>

canActivate(i, r, s) ==
    /\ outcome[i] = "none"
    /\ executor' = "canActivate"
    /\ route' = r
    /\ state' = s
    /\ middleware(i, "canActivate", r, s)

canActivateChild(i, r, s) ==
    /\ outcome[i] = "none"
    /\ executor' = "canActivateChild"
    /\ route' = r
    /\ state' = s
    /\ middleware(i, "canActivateChild", r, s)

\* A guard of call i is in flight: invoked, its result not yet known.
InFlight(i) == Len(invoked[i]) - Len(results[i])

\* The .then callback of executeGuards (lines 88-100): the guard in flight
\* resolves to result.  It reads the instance fields as they are now.
Then(i, result) ==
    LET next == NextIndex(guardIndex[i])
        token == GuardAt(guards[i], next)
        stops == RejectsUnderAnd(relation, result) \/ ApprovesUnderOr(relation, result)
        recurses == ~stops /\ HasNext(guards[i], guardIndex[i])
    IN  /\ outcome[i] = "pending"
        /\ InFlight(i) > 0
        /\ results' = [results EXCEPT ![i] = Append(@, result)]
        /\ guardIndex' = [guardIndex EXCEPT ![i] = IF recurses THEN next ELSE @]
        /\ lookups' = [lookups EXCEPT ![i] = IF recurses THEN Append(@, token) ELSE @]
        /\ invoked' = [invoked EXCEPT ![i] =
                         IF recurses /\ ~InjectorThrows(token)
                         THEN Append(@, Invocation(token, executor, route, state)) ELSE @]
        /\ outcome' = [outcome EXCEPT ![i] =
                         IF RejectsUnderAnd(relation, result) THEN "false"
                         ELSE IF ApprovesUnderOr(relation, result) THEN "true"
                         ELSE IF ~recurses THEN Resolved(result)
                         ELSE IF InjectorThrows(token) THEN "rejected"
                         ELSE "pending"]
        /\ UNCHANGED <<route, state, executor, relation, call, guards>>

\* Lines 101-103 resolving to false instead of rejecting.
CatchResolvesFalse(i) ==
    /\ outcome[i] = "pending"
    /\ Len(invoked[i]) - Len(results[i]) > 0
    /\ results' = [results EXCEPT ![i] = Append(@, "error")]
    /\ outcome' = [outcome EXCEPT ![i] = "false"]
    /\ UNCHANGED <<route, state, executor, relation, call, guards, guardIndex, lookups, invoked>>

\* Lines 101-103 swallowing the rejection without settling the promise.
CatchNeverSettles(i) ==
    /\ outcome[i] = "pending"
    /\ Len(invoked[i]) - Len(results[i]) > 0
    /\ results' = [results EXCEPT ![i] = Append(@, "error")]
    /\ UNCHANGED <<route, state, executor, relation, call, guards, guardIndex, lookups, invoked, outcome>>

\* The .catch callback of executeGuards (lines 101-103): the guard in flight
\* rejects.
Catch(i) ==
    /\ outcome[i] = "pending"
    /\ InFlight(i) > 0
    /\ results' = [results EXCEPT ![i] = Append(@, "error")]
    /\ outcome' = [outcome EXCEPT ![i] = "rejected"]
    /\ UNCHANGED <<route, state, executor, relation, call, guards, guardIndex, lookups, invoked>>

Next ==
    \E i \in Inv :
        \/ \E r \in ConcurrentRoutes, s \in States : canActivate(i, r, s)
        \/ \E r \in ConcurrentRoutes, s \in States : canActivateChild(i, r, s)
        \/ \E result \in {"true", "false"} : Then(i, result)
        \/ Catch(i)

\* Overlapping calls on the one instance.
Spec == Init /\ [][Next]_vars

NextOneCall ==
    \/ \E r \in Routes, s \in States : canActivate(1, r, s)
    \/ \E r \in Routes, s \in States : canActivateChild(1, r, s)
    \/ \E result \in {"true", "false"} : Then(1, result)
    \/ Catch(1)

\* One call on a fresh instance, over every route of Routes.
SpecOneCall == Init /\ [][NextOneCall]_vars

\* A guard class that is declared in data.guards and missing from the
\* providers: injector.get throws for it.
Unprovided == "Guard4"

\* Single routes whose lists mix a provided and the unprovided guard.
LookupRoutes ==
    {SingleRoute(l, r) :
        l \in UNION {[1..n -> {GuardTokens[1], Unprovided}] : n \in 1..MaxGuards},
        r \in {Undefined, Str(<<"o", "r">>)}}

NextLookup ==
    \/ \E r \in LookupRoutes, s \in States : canActivate(1, r, s)
    \/ \E r \in LookupRoutes, s \in States : canActivateChild(1, r, s)
    \/ \E result \in {"true", "false"} : Then(1, result)
    \/ Catch(1)

\* One call on a fresh instance, with guards the injector does not provide.
SpecLookup == Init /\ [][NextLookup]_vars

\* The guard in flight of call i settles and the callback of executeGuards
\* runs.
Settle(i) == (\E result \in {"true", "false"} : Then(i, result)) \/ Catch(i)

\* Overlapping calls whose guards all settle: a promise callback that can run
\* does run.
SpecFair == Init /\ [][Next]_vars /\ \A i \in Inv : WF_vars(Settle(i))

\* Calls one after the other: an entry point is called only when no earlier
\* call on the instance is still unsettled.
NextSequential ==
    \E i \in Inv :
        \/ /\ \A j \in Inv : outcome[j] # "pending"
           /\ \E r \in ConcurrentRoutes, s \in States : canActivate(i, r, s)
        \/ /\ \A j \in Inv : outcome[j] # "pending"
           /\ \E r \in ConcurrentRoutes, s \in States : canActivateChild(i, r, s)
        \/ \E result \in {"true", "false"} : Then(i, result)
        \/ Catch(i)

SpecSequential == Init /\ [][NextSequential]_vars

\* ------------------------------------------------- what a guard method returns
\* A boolean, as Guard3 returns.
BooleanAnswer(b) == [kind |-> "boolean", value |-> b, emits |-> <<>>, fails |-> FALSE]

\* A promise, as Guard2 returns: it resolves to b, or rejects.
PromiseAnswer(b, rejects) == [kind |-> "promise", value |-> b, emits |-> <<>>, fails |-> rejects]

\* An observable, as Guard1 returns: it emits the values of e, then completes
\* or errors.
ObservableAnswer(e, errors) == [kind |-> "observable", value |-> "undefined", emits |-> e, fails |-> errors]

Emissions == {<<"true">>, <<"false">>, <<"true", "false">>, <<"false", "true">>}

Answers ==
    {BooleanAnswer(b) : b \in {"true", "false"}}
    \cup {PromiseAnswer(b, FALSE) : b \in {"true", "false"}}
    \cup {PromiseAnswer("undefined", TRUE)}
    \cup {ObservableAnswer(e, errors) : e \in Emissions, errors \in BOOLEAN}

Fulfilled(v) == [rejects |-> FALSE, value |-> v]
Rejected == [rejects |-> TRUE, value |-> "undefined"]

\* Lines 124-127 with Promise.resolve(result) for every result: a promise is
\* adopted, an observable is passed on as an object, which is truthy.
ToPromiseWithoutFrom(a) ==
    CASE a.kind = "boolean" -> Fulfilled(a.value)
      [] a.kind = "promise" -> (IF a.fails THEN Rejected ELSE Fulfilled(a.value))
      [] OTHER -> Fulfilled("true")

\* Lines 124-127: a boolean is wrapped by Promise.resolve; from(result)
\* .toPromise() settles as a promise does, and for an observable resolves to
\* the last value emitted before completion, or rejects at an error.
ToPromise(a) ==
    CASE a.kind = "boolean" -> Fulfilled(a.value)
      [] a.kind = "promise" -> (IF a.fails THEN Rejected ELSE Fulfilled(a.value))
      [] OTHER -> (IF a.fails THEN Rejected ELSE Fulfilled(a.emits[Len(a.emits)]))

\* The guard in flight of call i answers a: the promise of activateGuard
\* settles and the callback of executeGuards runs.
Answer(i, a) ==
    IF ToPromise(a).rejects THEN Catch(i) ELSE Then(i, ToPromise(a).value)

NextAnswers ==
    \/ \E r \in Routes, s \in States : canActivate(1, r, s)
    \/ \E r \in Routes, s \in States : canActivateChild(1, r, s)
    \/ \E a \in Answers : Answer(1, a)

\* One call on a fresh instance whose guards answer as booleans, promises and
\* observables.
SpecAnswers == Init /\ [][NextAnswers]_vars

\* =================================================================== claims
Called(i) == outcome[i] # "none"

\* The call ran guards: its configuration resolved to a non-empty list.
Ran(i) == Called(i) /\ call[i].relation # NoRelation

\* The tokens of the guards call i has invoked, in order.
InvokedTokens(i) == [k \in DOMAIN invoked[i] |-> invoked[i][k].token]

IsPrefix(a, b) == Len(a) <= Len(b) /\ \A k \in DOMAIN a : a[k] = b[k]

Booleans == {"true", "false"}

\* The results of all the guards of call i: the known ones followed by any
\* booleans for the guards that were not invoked.
Completions(i) ==
    {results[i] \o rest : rest \in [1..(Len(guards[i]) - Len(results[i])) -> Booleans]}

\* The reference fold of a list of boolean results under a relation.
Fold(rel, all) ==
    IF rel = OR THEN \E k \in DOMAIN all : all[k] = "true"
    ELSE \A k \in DOMAIN all : all[k] = "true"

\* C1: when every guard of a call resolves to a boolean, the call's decision is
\* the fold of the results under the call's relation: under AND true iff all
\* are true, under OR true iff one is true.
C1_DecisionIsFold ==
    \A i \in Inv :
        (Ran(i) /\ Terminal(i) /\ \A k \in DOMAIN results[i] : results[i][k] \in Booleans)
        => \A all \in Completions(i) :
              outcome[i] = (IF Fold(call[i].relation, all) THEN "true" ELSE "false")

\* C2: under AND, once the guard at a position has resolved to false the call
\* has resolved to false and no guard at a later position is invoked.
C2_AndShortCircuit ==
    \A i \in Inv : \A k \in DOMAIN results[i] :
        (call[i].relation = AND /\ results[i][k] = "false")
        => (outcome[i] = "false" /\ Len(invoked[i]) = k)

\* C3: under OR, once the guard at a position has resolved to true the call has
\* resolved to true and no guard at a later position is invoked.
C3_OrShortCircuit ==
    \A i \in Inv : \A k \in DOMAIN results[i] :
        (call[i].relation = OR /\ results[i][k] = "true")
        => (outcome[i] = "true" /\ Len(invoked[i]) = k)

\* The results of call i never fired the short-circuit of its relation.
NoShortCircuit(i) ==
    \A k \in DOMAIN results[i] :
        results[i][k] = (IF call[i].relation = OR THEN "false" ELSE "true")

\* C4: a call that ended without a result firing its relation's short-circuit
\* invoked every declared guard once, in declared order, and decided the last
\* result: true under AND, false under OR.
C4_FullRun ==
    \A i \in Inv :
        (Ran(i) /\ Terminal(i) /\ NoShortCircuit(i))
        => /\ InvokedTokens(i) = guards[i]
           /\ Len(results[i]) = Len(guards[i])
           /\ outcome[i] = results[i][Len(results[i])]
           /\ outcome[i] = (IF call[i].relation = OR THEN "false" ELSE "true")

\* The list of the configuration the resolver finds for the route of call i.
DeclaredGuards(i) ==
    IF Called(i) THEN findDataWithGuards(call[i].route).data.guards.list ELSE <<>>

AloneStops(i, k) ==
    \/ results[i][k] = "error"
    \/ call[i].relation = AND /\ results[i][k] = "false"
    \/ call[i].relation = OR /\ results[i][k] = "true"
    \/ k = Len(guards[i])

AloneOutcome(i, k) == IF results[i][k] = "error" THEN "rejected" ELSE results[i][k]

\* C6: whatever other calls are in flight, a call invokes the guards and ends
\* with the outcome it would have alone under the relation it resolved.
C6_NoInterference ==
    \A i \in Inv :
        Ran(i) =>
            /\ \A k \in DOMAIN results[i] :
                  AloneStops(i, k) => (k = Len(results[i]) /\ outcome[i] = AloneOutcome(i, k))
            /\ (Terminal(i) /\ results[i] # <<>>) => AloneStops(i, Len(results[i]))
            /\ IsPrefix(InvokedTokens(i), guards[i])
            /\ Len(invoked[i]) = Len(results[i]) + (IF Terminal(i) THEN 0 ELSE 1)

\* C7: every guard of a call is invoked through the method of the call's entry
\* point, with the call's route and state.
C7_OwnMethodAndArguments ==
    \A i \in Inv : \A k \in DOMAIN invoked[i] :
        /\ invoked[i][k].method = call[i].executor
        /\ invoked[i][k].route = call[i].route
        /\ invoked[i][k].state = call[i].state

\* C8: once the guard at a position has rejected, the call is rejected and no
\* guard at a later position is looked up or invoked.
C8_ErrorAborts ==
    \A i \in Inv : \A k \in DOMAIN results[i] :
        results[i][k] = "error"
        => (outcome[i] = "rejected" /\ Len(invoked[i]) = k /\ Len(lookups[i]) = k)

\* The second guard of a three-guard AND list rejected, and the second guard of
\* a three-guard OR list of the other call did.
C8_Witness ==
    \E i, j \in Inv :
        /\ i # j
        /\ call[i].relation = AND /\ Len(guards[i]) = 3 /\ results[i] = <<"true", "error">>
        /\ call[j].relation = OR /\ Len(guards[j]) = 3 /\ results[j] = <<"false", "error">>

\* The resolved configuration of call i has no guards, or an empty list.
ResolvedEmpty(i) ==
    /\ Called(i)
    /\ ~findDataWithGuards(call[i].route).threw
    /\ \/ ~findDataWithGuards(call[i].route).data.guards.defined
       \/ findDataWithGuards(call[i].route).data.guards.list = <<>>

\* C9: a call whose resolved configuration has no guards list, or an empty
\* one, resolves to true without looking up or invoking a guard.
C9_EmptyApproves ==
    \A i \in Inv :
        ResolvedEmpty(i) => (outcome[i] = "true" /\ lookups[i] = <<>> /\ invoked[i] = <<>>)

\* One call resolved data without guards, the other an empty list, and both
\* resolved to true.
C9_Witness ==
    \E i, j \in Inv :
        /\ ResolvedEmpty(i) /\ ~findDataWithGuards(call[i].route).data.guards.defined
        /\ ResolvedEmpty(j) /\ findDataWithGuards(call[j].route).data.guards.defined
        /\ outcome[i] = "true" /\ outcome[j] = "true"

\* The data of the target node of call i.
OwnData(i) == Head(call[i].route).data

\* The relation a declared guardsRelation means: OR for the case variants of
\* 'OR', AND for anything else.
Means(v) ==
    IF v.type = "string"
       /\ v.chars \in {<<"O", "R">>, <<"O", "r">>, <<"o", "R">>, <<"o", "r">>}
    THEN OR ELSE AND

\* C10: when the target node declares a guards list, the call runs that list
\* under the relation the target node declares, whatever its ancestors declare
\* and wherever MasterGuard is attached.
C10_OwnConfigurationWins ==
    \A i \in Inv :
        (Called(i) /\ OwnData(i).guards.defined)
        => /\ guards[i] = OwnData(i).guards.list
           /\ IsPrefix(InvokedTokens(i), OwnData(i).guards.list)
           /\ OwnData(i).guards.list # <<>>
              => /\ call[i].relation = Means(OwnData(i).guardsRelation)
                 /\ relation = Means(OwnData(i).guardsRelation)
                 /\ Len(invoked[i]) >= 1

\* A child that declares two guards under 'oR' below a parent that carries
\* canActivateChild: [MasterGuard] and three guards under 'AND': the call ran
\* the child's two guards under OR.
C10_Witness ==
    \E i \in Inv :
        /\ call[i].executor = "canActivateChild"
        /\ Len(call[i].route) = 3
        /\ OwnData(i) = Data(Guards(GuardList(2)), Str(<<"o", "R">>))
        /\ call[i].route[2].data = Data(Guards(GuardList(3)), Str(AND))
        /\ Attached(call[i].route[2].routeConfig.canActivateChild)
        /\ ~Attached(call[i].route[1].routeConfig.canActivateChild)
        /\ results[i] = <<"false", "true">>
        /\ outcome[i] = "true"

\* The node declares a guards list.
Declares(node) == node.data.guards.defined

\* MasterGuard is listed in the node's canActivate or canActivateChild.
HasMasterGuard(node) ==
    /\ ~node.routeConfig.isNull
    /\ \/ \E k \in DOMAIN node.routeConfig.canActivate.list :
             node.routeConfig.canActivate.list[k] = MasterGuardClass
       \/ \E k \in DOMAIN node.routeConfig.canActivateChild.list :
             node.routeConfig.canActivateChild.list[k] = MasterGuardClass

\* Neither the target of call i nor its parent declares guards; the ancestor
\* two levels up does.
DeclaredTwoLevelsUp(i) ==
    /\ Called(i)
    /\ Len(call[i].route) >= 3
    /\ ~Declares(call[i].route[1])
    /\ ~Declares(call[i].route[2])
    /\ Declares(call[i].route[3])

\* Call i runs the list l: it is the list handed to executeGuards, and the
\* guards invoked are its first ones in order, the first one at the call.
RunsList(i, l) ==
    /\ outcome[i] # "threw"
    /\ guards[i] = l
    /\ IsPrefix(InvokedTokens(i), l)
    /\ l # <<>> => Len(invoked[i]) >= 1

Suppliers(r) == {k \in DOMAIN r : Declares(r[k]) \/ HasMasterGuard(r[k])}

\* The node that supplies the configuration: the first of them from the target.
Supplier(r) == r[CHOOSE k \in Suppliers(r) : \A j \in Suppliers(r) : k <= j]

\* Call i runs the non-empty guards list of the supplier of its route.
RunsSupplied(i) ==
    /\ Called(i)
    /\ Suppliers(call[i].route) # {}
    /\ Supplier(call[i].route).data.guards.list # <<>>

\* C12: the relation a call resolves is the one declared by the node that
\* supplied its guards list: OR when that node declares a case variant of
\* 'OR', also when it is an ancestor, and whatever guardsRelation a target
\* without guards declares.
C12_RelationOfSupplier ==
    \A i \in Inv :
        RunsSupplied(i) => call[i].relation = Means(Supplier(call[i].route).data.guardsRelation)

\* The route with the guardsRelation of its supplier replaced by 'AND'.
WithExplicitAnd(r) ==
    LET k == CHOOSE k \in Suppliers(r) : \A j \in Suppliers(r) : k <= j
    IN  [r EXCEPT ![k] = [@ EXCEPT !.data = Data(@.guards, Str(AND))]]

\* What a call running alone under relation rel does with the result at
\* position k.
StopsUnder(i, rel, k) ==
    \/ results[i][k] = "error"
    \/ rel = AND /\ results[i][k] = "false"
    \/ rel = OR /\ results[i][k] = "true"
    \/ k = Len(guards[i])

\* Call i invoked the guards and has the outcome of a run under rel.
RunsAloneUnder(i, rel) ==
    /\ outcome[i] # "threw"
    /\ \A k \in DOMAIN results[i] :
          StopsUnder(i, rel, k) => (k = Len(results[i]) /\ outcome[i] = AloneOutcome(i, k))
    /\ (Terminal(i) /\ results[i] # <<>>) => StopsUnder(i, rel, Len(results[i]))
    /\ IsPrefix(InvokedTokens(i), guards[i])
    /\ Len(invoked[i]) = Len(results[i]) + (IF Terminal(i) THEN 0 ELSE 1)

\* C13: a call whose configuration declares no guardsRelation, or a string
\* that is no case variant of 'OR', runs the same guards under the same
\* relation, with the same outcome, as the call whose configuration declares
\* 'AND' instead; it does not throw, and is rejected only when a guard is.
C13_DefaultsToAnd ==
    \A i \in Inv :
        (RunsSupplied(i) /\ Means(Supplier(call[i].route).data.guardsRelation) = AND)
        => LET r == WithExplicitAnd(call[i].route)
               found == findDataWithGuards(r)
           IN  /\ ~found.threw
               /\ guards[i] = found.data.guards.list
               /\ call[i].relation = ResolveRelation(r, found.data)
               /\ RunsAloneUnder(i, ResolveRelation(r, found.data))

\* A route that declares three guards under 'xor' ended with false at the
\* second guard, and so did one that declares no relation below a parent.
C13_Witness ==
    \E i \in Inv :
        /\ RunsSupplied(i)
        /\ Supplier(call[i].route).data = Data(Guards(GuardList(3)), Str(<<"x", "o", "r">>))
        /\ results[i] = <<"true", "false">>
        /\ Len(invoked[i]) = 2
        /\ outcome[i] = "false"

\* No node of the route declares guards or carries MasterGuard.
NothingDeclared(r) == Suppliers(r) = {}

\* C14: when no node from the target up to the root declares guards and the
\* walk is not stopped before it runs past the root, the call resolves to
\* true without looking up or invoking any guard; it does not throw.
C14_NothingDeclaredApproves ==
    \A i \in Inv :
        (Called(i) /\ NothingDeclared(call[i].route))
        => (outcome[i] = "true" /\ lookups[i] = <<>> /\ invoked[i] = <<>>)

\* C15: when injector.get cannot provide a declared guard, at any index, the
\* call returns a promise that rejects; the lookup is the call's last one, and
\* no guard is invoked after it.
C15_LookupFailureRejects ==
    \A i \in Inv : \A k \in DOMAIN lookups[i] :
        InjectorThrows(lookups[i][k])
        => /\ outcome[i] = "rejected"
           /\ k = Len(lookups[i])
           /\ Len(invoked[i]) = k - 1

\* The nodes of the route that declare guards, nearest first.
Declaring(r) == {k \in DOMAIN r : Declares(r[k])}
FirstDeclaring(r) == r[CHOOSE k \in Declaring(r) : \A j \in Declaring(r) : k <= j]

Progress(i) == <<outcome[i], lookups[i], invoked[i], results[i], guardIndex[i]>>

\* C17: a call that has reached true, false or rejected keeps its outcome and
\* looks up and invokes no guard afterwards; a step that invokes a guard
\* invokes one guard, at a list position beyond that of every guard the call
\* invoked before.
C17_TerminalIsFinal ==
    [][\A i \in Inv :
          /\ Terminal(i) => Progress(i)' = Progress(i)
          /\ invoked'[i] # invoked[i]
             => /\ Len(invoked'[i]) = Len(invoked[i]) + 1
                /\ SubSeq(invoked'[i], 1, Len(invoked[i])) = invoked[i]
                /\ invoked'[i][Len(invoked'[i])].token = GuardAt(guards'[i], guardIndex'[i])
                /\ guardIndex'[i] = Len(invoked[i])
                /\ (invoked[i] # <<>> => guardIndex'[i] > guardIndex[i])]_vars

\* One call has ended after two guards while the other is past its first
\* guard and still running.
C17_Witness ==
    \E i, j \in Inv :
        /\ i # j
        /\ outcome[i] \in {"true", "false", "rejected"}
        /\ Len(invoked[i]) >= 2
        /\ outcome[j] = "pending"
        /\ Len(results[j]) >= 1

\* C18: when every invoked guard settles, every call reaches true, false,
\* rejected (or has thrown); a call that has not is waiting for exactly one
\* guard in flight.
C18_EventuallyTerminal ==
    /\ [](\A i \in Inv : outcome[i] = "pending" => InFlight(i) = 1)
    /\ \A i \in Inv : (outcome[i] = "pending") ~> Terminal(i)

\* Both calls ran their whole list and ended, one of them at a rejection.
C18_Witness ==
    \E i, j \in Inv :
        /\ i # j
        /\ outcome[i] \in {"true", "false"}
        /\ Len(results[i]) = Len(guards[i])
        /\ Len(guards[i]) >= 2
        /\ outcome[j] = "rejected"
        /\ Len(results[j]) = Len(guards[j])
        /\ Len(guards[j]) >= 2

\* No node of the route declares a guardsRelation.
NoRelationDeclared(r) == \A k \in DOMAIN r : r[k].data.guardsRelation = Undefined

\* C19: a call made after the earlier calls on the instance have ended invokes
\* its guards through its own entry point with its own arguments, goes on and
\* ends as the relation it resolved prescribes for its own results, and two
\* calls with the same arguments and results have done the same; a call whose
\* route declares no guardsRelation runs under AND whatever ran before.
C19_NoMemory ==
    /\ \A i \in Inv :
          Ran(i) =>
             /\ RunsAloneUnder(i, call[i].relation)
             /\ \A k \in DOMAIN invoked[i] :
                   invoked[i][k] = Invocation(guards[i][k], call[i].executor,
                                              call[i].route, call[i].state)
             /\ NoRelationDeclared(call[i].route) => call[i].relation = AND
    /\ \A i, j \in Inv :
          (/\ Called(i) /\ Called(j)
           /\ call[i].executor = call[j].executor
           /\ call[i].route = call[j].route
           /\ call[i].state = call[j].state
           /\ results[i] = results[j])
          => /\ call[i].relation = call[j].relation
             /\ invoked[i] = invoked[j]
             /\ lookups[i] = lookups[j]
             /\ outcome[i] = outcome[j]

\* A call ended with true at the first guard of a longer OR list; the next
\* call, whose route declares no guardsRelation, went on to its second guard
\* after a true.
C19_Witness ==
    \E i, j \in Inv :
        /\ i # j
        /\ Ran(i) /\ call[i].relation = OR
        /\ Len(guards[i]) >= 2 /\ results[i] = <<"true">> /\ outcome[i] = "true"
        /\ Ran(j) /\ NoRelationDeclared(call[j].route)
        /\ results[j] = <<"true">> /\ Len(invoked[j]) = 2 /\ outcome[j] = "pending"

\* The answers that are one boolean: a boolean, a promise that resolves to a
\* boolean, an observable that emits one boolean and completes.
SingleBooleans ==
    {a \in Answers :
        \/ a.kind = "boolean"
        \/ a.kind = "promise" /\ ~a.fails
        \/ a.kind = "observable" /\ ~a.fails /\ Len(a.emits) = 1}

BooleanOf(a) == IF a.kind = "observable" THEN a.emits[1] ELSE a.value

\* C20: a step in which the guard in flight gives one boolean, immediately or
\* as a promise or an observable, is the step of every other such answer of
\* the same value: the same outcome, the same next lookup and invocation.
C20_SameValueSameRun ==
    [][\A i \in Inv : \A a, b \in SingleBooleans :
          (BooleanOf(a) = BooleanOf(b) /\ Answer(i, a))
          => (Answer(i, b) /\ results'[i] = Append(results[i], BooleanOf(a)))]_vars

\* A three-guard OR list ended with true at its second guard; a boolean, a
\* promise and an observable of one value settle alike.
C20_Witness ==
    \E i \in Inv :
        /\ Ran(i) /\ call[i].relation = OR /\ Len(guards[i]) >= 3
        /\ results[i] = <<"false", "true">>
        /\ Len(invoked[i]) = 2
        /\ outcome[i] = "true"
        /\ \A a \in SingleBooleans : ToPromise(a) = Fulfilled(BooleanOf(a))
        /\ \E a, b, c \in SingleBooleans :
              /\ a.kind = "boolean" /\ b.kind = "promise" /\ c.kind = "observable"
              /\ BooleanOf(a) = "true" /\ BooleanOf(b) = "true" /\ BooleanOf(c) = "true"

====
